---- MODULE Spec2Model ----
(***************************************************************************)
(* dp-file-downloader: the table download path.                            *)
(*                                                                         *)
(*   api.handleDownload  (src/api/api.go, 289-317)                         *)
(*     -> table.Downloader.Download  (src/table/table.go, 49-85)           *)
(*          -> ZebedeeClient.GetResourceBody   (content server)            *)
(*          -> RendererClient.PostBody         (table renderer)            *)
(*                                                                         *)
(* Strings are sequences of one-character strings, so that strings.Split   *)
(* and strings.TrimSuffix are computed character by character.             *)
(* A Go nil (error, io.ReadCloser, map) is a record whose "nil" field is   *)
(* TRUE.                                                                   *)
(***************************************************************************)
EXTENDS Integers, Sequences, FiniteSets, TLC

VARIABLES
    pc,            \* per request: position of its handler goroutine
    request,       \* per request: the query parameters format and uri
    contentCalls,  \* per request: number of GetResourceBody invocations
    renderCalls,   \* per request: number of PostBody invocations
    contentResp,   \* per request: what GetResourceBody returned
    renderResp,    \* per request: what PostBody returned
    result,        \* per request: what Download returned
    w,             \* per request: the http.ResponseWriter
    stream,        \* per request: the renderer's response body stream
    logs,          \* per request: the messages logged
    contentArgs,   \* per request: the arguments GetResourceBody was given
    renderArgs,    \* per request: the arguments PostBody was given, and
                   \*   the request the render client built from them
    downloader,    \* the Downloader all requests share: its two clients
    hpc,           \* createHeaders check: "input" or "applied"
    hUri,          \* createHeaders check: uri argument
    hFormat,       \* createHeaders check: format argument
    hResponse,     \* createHeaders check: response argument
    hHeaders,      \* createHeaders check: returned map
    rpc,           \* router: "off", "idle" or "served"
    rDownloaders,  \* router: the Downloaders passed to routes, in order
    rRoutes,       \* router: the routes registered, in order
    rReq,          \* router: the request served
    rInvoked,      \* router: per handler, the number of invocations
    rStatus,       \* router: the status the router itself answered, or 0
    env,           \* config: the environment of the process
    cfg,           \* config: the package variable cfg
    cfgRet,        \* config: what the last call of Get returned
    getCalls,      \* config: number of calls of Get so far
    mpc,           \* main: position of the main goroutine
    spc,           \* main: position of the server goroutine
    gpc,           \* main: position of the shutdown goroutine
    signals,       \* main: the channel of OS signals
    apiErrors,     \* main: the channel of API errors
    sends,         \* main: number of sends on apiErrors so far
    listenErr,     \* main: what ListenAndServe returned
    httpServer,    \* main: "listening", "failed" or "shutdown"
    healthcheck,   \* main: "started" or "stopped"
    gracefulCtx,   \* main: the shutdown context and its Err()
    closeErr,      \* main: what api.Close returned
    gracefulShutdown, \* main: the flag of that name
    shutdownRuns,  \* main: number of runs of the shutdown sequence
    steps          \* main: the steps of the shutdown goroutine, in order

vars == <<pc, request, contentCalls, renderCalls, contentResp, renderResp,
          result, w, stream, logs, contentArgs, renderArgs, downloader,
          hpc, hUri, hFormat, hResponse, hHeaders,
          rpc, rDownloaders, rRoutes, rReq, rInvoked, rStatus,
          env, cfg, cfgRet, getCalls,
          mpc, spc, gpc, signals, apiErrors, sends, listenErr, httpServer,
          healthcheck, gracefulCtx, closeErr, gracefulShutdown, shutdownRuns,
          steps>>

reqVars == <<pc, request, contentCalls, renderCalls, contentResp, renderResp,
             result, w, stream, logs, contentArgs, renderArgs, downloader>>

hdrVars == <<hpc, hUri, hFormat, hResponse, hHeaders>>

routeVars == <<rpc, rDownloaders, rRoutes, rReq, rInvoked, rStatus>>

cfgVars == <<env, cfg, cfgRet, getCalls>>

mainVars == <<mpc, spc, gpc, signals, apiErrors, sends, listenErr, httpServer,
              healthcheck, gracefulCtx, closeErr, gracefulShutdown,
              shutdownRuns, steps>>

\* everything but the state of the requests
nonReqVars == <<hdrVars, routeVars, cfgVars, mainVars>>

----------------------------------------------------------------------------
(* Bounds *)

\* number of requests in flight at the same time
NumReqs == 2

\* config.Get is called at most MaxGets times
MaxGets == 2

\* a uri of the createHeaders check is made of at most MaxParts tokens
MaxParts == 4

Reqs == 1..NumReqs

----------------------------------------------------------------------------
(* net/http status codes *)

StatusOK == 200
StatusBadRequest == 400
StatusNotFound == 404
StatusInternalServerError == 500

----------------------------------------------------------------------------
(* Strings *)

dotJSON == <<".", "j", "s", "o", "n">>
html == <<"h", "t", "m", "l">>
csv == <<"c", "s", "v">>
fooBarJSON == <<"/", "f", "o", "o", "/", "b", "a", "r", ".", "j", "s", "o", "n">>
fooBar == <<"/", "f", "o", "o", "/", "b", "a", "r">>
barHTML == <<"b", "a", "r", ".", "h", "t", "m", "l">>
textHTML == <<"t", "e", "x", "t", "/", "h", "t", "m", "l">>
textCSV == <<"t", "e", "x", "t", "/", "c", "s", "v">>
attachmentPrefix ==
    <<"a", "t", "t", "a", "c", "h", "m", "e", "n", "t", ";", " ",
      "f", "i", "l", "e", "n", "a", "m", "e", "=", "\"">>
quote == <<"\"">>

\* strings.HasSuffix
HasSuffix(s, suffix) ==
    /\ Len(s) >= Len(suffix)
    /\ SubSeq(s, Len(s) - Len(suffix) + 1, Len(s)) = suffix

\* a plausible slip: strips every trailing repetition of the suffix
RECURSIVE TrimSuffixAll(_, _)
TrimSuffixAll(s, suffix) ==
    IF HasSuffix(s, suffix)
    THEN TrimSuffixAll(SubSeq(s, 1, Len(s) - Len(suffix)), suffix)
    ELSE s

\* strings.TrimSuffix
TrimSuffix(s, suffix) ==
    IF HasSuffix(s, suffix) THEN SubSeq(s, 1, Len(s) - Len(suffix)) ELSE s

\* strings.Split(s, "/"): the substrings between the separators
RECURSIVE Split(_, _)
Split(s, sep) ==
    LET idx == {i \in 1..Len(s) : s[i] = sep} IN
    IF idx = {}
    THEN <<s>>
    ELSE LET i == CHOOSE j \in idx : \A k \in idx : j <= k
         IN <<SubSeq(s, 1, i - 1)>> \o Split(SubSeq(s, i + 1, Len(s)), sep)

----------------------------------------------------------------------------
(* Values *)

NilErr == [nil |-> TRUE, kind |-> "nil", code |-> 0, msg |-> "nil"]

\* errors.New(msg)
NewError(msg) == [nil |-> FALSE, kind |-> "error", code |-> 0, msg |-> msg]

\* zebedee.ErrInvalidZebedeeResponse{ActualCode: code}
ErrInvalidZebedeeResponse(code) ==
    [nil |-> FALSE, kind |-> "zebedee", code |-> code, msg |-> "invalid response from zebedee"]

NilBody == [nil |-> TRUE, data |-> <<>>]
Body(data) == [nil |-> FALSE, data |-> data]

EmptyMap == [k \in {} |-> <<>>]
NilHeaders == [nil |-> TRUE, m |-> EmptyMap]
Headers(m) == [nil |-> FALSE, m |-> m]

\* *http.Response as far as Download reads it
Response(status, contentType, body) ==
    [nil |-> FALSE, StatusCode |-> status, ContentType |-> contentType, Body |-> body]
NilResponse ==
    [nil |-> TRUE, StatusCode |-> 0, ContentType |-> <<>>, Body |-> NilBody]

\* the four values Download returns
Result(body, headers, status, err) ==
    [body |-> body, headers |-> headers, status |-> status, err |-> err]
NoResult == Result(NilBody, NilHeaders, 0, NilErr)

----------------------------------------------------------------------------
(* table.Downloader *)

\* a plausible slip: rejects only when both parameters are missing
validateURLBoth(format, uri) ==
    IF format = <<>> /\ uri = <<>> THEN NewError("bad request") ELSE NilErr

\* validateURL
validateURL(format, uri) ==
    IF format = <<>> \/ uri = <<>> THEN NewError("bad request") ELSE NilErr

\* getContentType: a new map holding the response's Content-Type
getContentType(response) ==
    [k \in {"Content-Type"} |-> response.ContentType]

\* createHeaders
createHeaders(response, uri, format) ==
    LET headers == getContentType(response)
        paths == Split(uri, "/")
        filename == TrimSuffix(paths[Len(paths)], dotJSON) \o <<".">> \o format
    IN [k \in DOMAIN headers \cup {"Content-Disposition"} |->
           IF k = "Content-Disposition"
           THEN attachmentPrefix \o filename \o quote
           ELSE headers[k]]

\* the earlier behaviour: a missing resource is not an error
contentErrorNotFoundNil(err) ==
    IF err.kind = "zebedee"
    THEN IF err.code = StatusNotFound
         THEN Result(NilBody, NilHeaders, StatusNotFound, NilErr)
         ELSE IF err.code = StatusInternalServerError
              THEN Result(NilBody, NilHeaders, StatusInternalServerError, err)
              ELSE Result(NilBody, NilHeaders, StatusBadRequest, err)
    ELSE Result(NilBody, NilHeaders, StatusInternalServerError, err)

\* a plausible slip: the 500 branch is missing, so 500 falls to bad request
contentErrorNo500(err) ==
    IF err.kind = "zebedee"
    THEN IF err.code = StatusNotFound
         THEN Result(NilBody, NilHeaders, StatusNotFound, err)
         ELSE Result(NilBody, NilHeaders, StatusBadRequest, err)
    ELSE Result(NilBody, NilHeaders, StatusInternalServerError, err)

\* the earlier behaviour: the upstream status is passed through
contentErrorPassThrough(err) ==
    IF err.kind = "zebedee"
    THEN Result(NilBody, NilHeaders, err.code, err)
    ELSE Result(NilBody, NilHeaders, StatusInternalServerError, err)

\* Download, the content server failed: errors.As and the status mapping
contentError(err) ==
    IF err.kind = "zebedee"
    THEN IF err.code = StatusNotFound
         THEN Result(NilBody, NilHeaders, StatusNotFound, err)
         ELSE IF err.code = StatusInternalServerError
              THEN Result(NilBody, NilHeaders, StatusInternalServerError, err)
              ELSE Result(NilBody, NilHeaders, StatusBadRequest, err)
    ELSE Result(NilBody, NilHeaders, StatusInternalServerError, err)

\* a plausible slip: the renderer's response is handed on with the error
renderErrorKeepsResponse(renderResponse, err) ==
    Result(renderResponse.Body, NilHeaders, StatusInternalServerError, err)

\* a plausible slip: the renderer's failure is not handed on
renderErrorSwallowed(renderResponse, err) ==
    Result(NilBody, NilHeaders, StatusInternalServerError, NilErr)

\* Download, the renderer failed
renderError(renderResponse, err) ==
    Result(NilBody, NilHeaders, StatusInternalServerError, err)

\* a plausible slip: success always reports 200
renderSuccessOK(renderResponse, uri, format) ==
    Result(renderResponse.Body,
           Headers(createHeaders(renderResponse, uri, format)),
           StatusOK, NilErr)

\* a plausible slip: the uri is kept in a field the requests share
renderSuccessShared(renderResponse, uri, format) ==
    Result(renderResponse.Body,
           Headers(createHeaders(renderResponse, request[1].uri, format)),
           renderResponse.StatusCode, NilErr)

\* Download, the renderer answered
renderSuccess(renderResponse, uri, format) ==
    Result(renderResponse.Body,
           Headers(createHeaders(renderResponse, uri, format)),
           renderResponse.StatusCode, NilErr)

\* a plausible slip: only a structured error stops the download
contentFailedStructured(err) == err.kind = "zebedee"

\* Download, "if err != nil" after GetResourceBody
contentFailed(err) == ~err.nil

----------------------------------------------------------------------------
(* http.ResponseWriter, as handleDownload drives it *)

\* header: the live header map; sent: the headers as they went out with the
\* status line; body: the pieces written
NewResponseWriter ==
    [header |-> EmptyMap, wroteHeader |-> FALSE, status |-> 0,
     sent |-> EmptyMap, body |-> <<>>]

\* w.Header().Add(key, value)
HeaderAdd(rw, key, value) ==
    [rw EXCEPT !.header =
        [k \in DOMAIN rw.header \cup {key} |->
            IF k = key
            THEN (IF key \in DOMAIN rw.header THEN rw.header[key] ELSE <<>>) \o <<value>>
            ELSE rw.header[k]]]

\* w.Header().Set(key, value)
HeaderSet(rw, key, value) ==
    [rw EXCEPT !.header =
        [k \in DOMAIN rw.header \cup {key} |->
            IF k = key THEN <<value>> ELSE rw.header[k]]]

\* w.WriteHeader(code): only the first call sends the status line and headers
WriteHeader(rw, code) ==
    IF rw.wroteHeader
    THEN rw
    ELSE [rw EXCEPT !.wroteHeader = TRUE, !.status = code, !.sent = rw.header]

\* w.Write(data): sends 200 first when no status was written
Write(rw, data) ==
    LET rw1 == WriteHeader(rw, StatusOK)
    IN [rw1 EXCEPT !.body = rw1.body \o data]

\* http.Error(w, msg, code)
httpError(rw, msg, code) ==
    LET rw1 == HeaderSet(rw, "Content-Type", <<"text/plain; charset=utf-8">>)
        rw2 == HeaderSet(rw1, "X-Content-Type-Options", <<"nosniff">>)
        rw3 == WriteHeader(rw2, code)
    IN Write(rw3, <<msg, "\n">>)

\* a plausible slip: the status is written without the error text
writeErrorStatusOnly(rw, res) ==
    WriteHeader(rw, IF res.status < 400 THEN StatusInternalServerError ELSE res.status)

\* a plausible slip: the returned status is used as it is
writeErrorNoRaise(rw, res) ==
    httpError(rw, res.err.msg, res.status)

\* handleDownload, the handler returned an error: the status is raised to
\* 500 when it is below 400 and the error text is the body
writeError(rw, res) ==
    httpError(rw, res.err.msg,
              IF res.status < 400 THEN StatusInternalServerError ELSE res.status)

\* for key, value := range headers { w.Header().Add(key, value) }
RECURSIVE AddHeaders(_, _, _)
AddHeaders(rw, m, keys) ==
    IF keys = {}
    THEN rw
    ELSE LET k == CHOOSE x \in keys : TRUE
         IN AddHeaders(HeaderAdd(rw, k, m[k]), m, keys \ {k})

\* the earlier behaviour: only the headers are set before the copy, so the
\* first Write sends 200
writeHeadNoStatus(rw, res) ==
    AddHeaders(rw, res.headers.m, DOMAIN res.headers.m)

\* handleDownload, the handler returned no error: the headers are added and
\* then the status is written
writeHead(rw, res) ==
    WriteHeader(AddHeaders(rw, res.headers.m, DOMAIN res.headers.m), res.status)

----------------------------------------------------------------------------
(* Inputs *)

\* query parameters of the requests
Formats == {<<>>, html}
URIs == {<<>>, fooBarJSON, fooBar}

\* upstream statuses the content client reports in ErrInvalidZebedeeResponse
ZebedeeCodes == {StatusBadRequest, StatusNotFound, StatusInternalServerError, 503}

\* what GetResourceBody can return
ContentOutcomes ==
    {[body |-> "contentServerResponse", err |-> NilErr]}
    \cup {[body |-> "", err |-> ErrInvalidZebedeeResponse(c)] : c \in ZebedeeCodes}
    \cup {[body |-> "", err |-> NewError("The content server is down")]}

\* the renderer's body, in the pieces io.Copy reads
renderBody == <<"renderServer", "Response">>

\* what PostBody can return: a response of any status, an error without a
\* response, or (as the test double does) an error next to a response
RenderOutcomes ==
    {[resp |-> Response(st, textHTML, Body(renderBody)), err |-> NilErr] :
        st \in {StatusOK, StatusInternalServerError}}
    \cup {[resp |-> NilResponse, err |-> NewError("The render server is down")]}
    \cup {[resp |-> Response(StatusOK, textHTML, Body(renderBody)),
           err |-> NewError("The render server is down")]}

\* what Download reads of a request: the two query parameters, the values
\* getHeaderValues extracts, and whether extracting the collection id or the
\* access token reports an error
Requests ==
    [format : Formats, uri : URIs, accessToken : {"myAccessToken"},
     collectionID : {""}, locale : {"en"}, collectionErr : {FALSE},
     tokenErr : {FALSE}]

NoRequest ==
    [format |-> <<>>, uri |-> <<>>, accessToken |-> "", collectionID |-> "",
     locale |-> "", collectionErr |-> FALSE, tokenErr |-> FALSE]
NoContentArgs ==
    [userAccessToken |-> "", collectionID |-> "", lang |-> "", uri |-> <<>>]
NoPost == [method |-> "", url |-> <<>>, body |-> "", contentType |-> ""]
NoRenderArgs ==
    [format |-> <<>>, body |-> "", reqURL |-> <<>>, built |-> FALSE,
     posted |-> NoPost]
NoContent == [done |-> FALSE, body |-> "", err |-> NilErr]
NoRender == [done |-> FALSE, resp |-> NilResponse, err |-> NilErr]
NoStream == [exists |-> FALSE, closes |-> 0, closedAfterWrite |-> FALSE]

----------------------------------------------------------------------------
(* The two clients of the Downloader *)

\* tableRenderer.New: the client keeps the renderer's url
New(tableRendererURL) == [url |-> tableRendererURL]

\* main: the content client and the render client
zc == [name |-> "zebedee"]
tabrend == New(<<"http://localhost:23300">>)

\* table.NewDownloader
NewDownloader(contentClient, rendererClient) ==
    [contentClient |-> contentClient, rendererClient |-> rendererClient]

\* getHeaderValues
getHeaderValues(r) ==
    [locale |-> r.locale, collectionID |-> r.collectionID,
     accessToken |-> r.accessToken]

\* a plausible slip: a failed extraction goes unreported
getHeaderValuesLogsNothing(r) == {}

\* getHeaderValues, the errors it logs
getHeaderValuesLogs(r) ==
    (IF r.collectionErr
     THEN {"unexpected error when getting collection id"} ELSE {})
    \cup (IF r.tokenErr
          THEN {"unexpected error when getting access token"} ELSE {})

\* a plausible slip: the token and the collection id change places
GetResourceBodyArgsSwapped(r) ==
    LET hv == getHeaderValues(r)
    IN [userAccessToken |-> hv.collectionID, collectionID |-> hv.accessToken,
        lang |-> hv.locale, uri |-> r.uri]

\* Download, the arguments of contentClient.GetResourceBody
GetResourceBodyArgs(r) ==
    LET hv == getHeaderValues(r)
    IN [userAccessToken |-> hv.accessToken, collectionID |-> hv.collectionID,
        lang |-> hv.locale, uri |-> r.uri]

Hex == {"0", "1", "2", "3", "4", "5", "6", "7", "8", "9",
        "a", "b", "c", "d", "e", "f", "A", "B", "C", "D", "E", "F"}

\* http.NewRequest parses the url: a "%" not followed by two hexadecimal
\* digits makes it fail
NewRequestSucceeds(u) ==
    \A i \in 1..Len(u) :
        u[i] = "%" => /\ i + 2 <= Len(u)
                      /\ u[i + 1] \in Hex
                      /\ u[i + 2] \in Hex

\* Client.PostBody and Client.post: the arguments received, the url made
\* of them and, when http.NewRequest succeeded, the request handed to Do
PostBody(c, format, body) ==
    LET reqURL == c.url \o <<"/render/">> \o format
        built == NewRequestSucceeds(reqURL)
    IN [format |-> format, body |-> body, reqURL |-> reqURL, built |-> built,
        posted |-> IF built
                   THEN [method |-> "POST", url |-> reqURL, body |-> body,
                         contentType |-> "application/json"]
                   ELSE NoPost]

----------------------------------------------------------------------------
(* One request: handleDownload calling Download *)

ReqInit ==
    /\ pc = [r \in Reqs |-> "idle"]
    /\ request = [r \in Reqs |-> NoRequest]
    /\ contentCalls = [r \in Reqs |-> 0]
    /\ renderCalls = [r \in Reqs |-> 0]
    /\ contentResp = [r \in Reqs |-> NoContent]
    /\ renderResp = [r \in Reqs |-> NoRender]
    /\ result = [r \in Reqs |-> NoResult]
    /\ w = [r \in Reqs |-> NewResponseWriter]
    /\ stream = [r \in Reqs |-> NoStream]
    /\ logs = [r \in Reqs |-> {}]
    /\ contentArgs = [r \in Reqs |-> NoContentArgs]
    /\ renderArgs = [r \in Reqs |-> NoRenderArgs]
    /\ downloader = NewDownloader(zc, tabrend)

\* handleDownload calls Download: the query parameters and the header
\* values are read, the parameters are validated, and the content server is
\* called
ReceiveFrom(r, requests) ==
    /\ pc[r] = "idle"
    /\ \E req \in requests :
         LET err == validateURL(req.format, req.uri) IN
         /\ request' = [request EXCEPT ![r] = req]
         /\ logs' = [logs EXCEPT ![r] = @ \cup getHeaderValuesLogs(req)]
         /\ IF ~err.nil
            THEN /\ result' = [result EXCEPT ![r] =
                                  Result(NilBody, NilHeaders, StatusBadRequest, err)]
                 /\ pc' = [pc EXCEPT ![r] = "returned"]
                 /\ UNCHANGED <<contentCalls, contentArgs>>
            ELSE /\ contentCalls' = [contentCalls EXCEPT ![r] = @ + 1]
                 /\ contentArgs' = [contentArgs EXCEPT ![r] = GetResourceBodyArgs(req)]
                 /\ pc' = [pc EXCEPT ![r] = "content"]
                 /\ UNCHANGED result
    /\ UNCHANGED <<renderCalls, contentResp, renderResp, w, stream>>
    /\ UNCHANGED <<renderArgs, downloader, nonReqVars>>

Receive(r) == ReceiveFrom(r, Requests)

\* GetResourceBody returns: Download maps a failure, or calls the renderer.
\* When the render client cannot build its request it dereferences the nil
\* request, and the goroutine panics inside Download.
ContentReturnFrom(r, outcomes) ==
    /\ pc[r] = "content"
    /\ \E out \in outcomes :
         /\ contentResp' = [contentResp EXCEPT ![r] =
                               [done |-> TRUE, body |-> out.body, err |-> out.err]]
         /\ IF contentFailed(out.err)
            THEN /\ logs' = [logs EXCEPT ![r] = @ \cup {"error calling content server"}]
                 /\ result' = [result EXCEPT ![r] = contentError(out.err)]
                 /\ pc' = [pc EXCEPT ![r] = "returned"]
                 /\ UNCHANGED <<renderCalls, renderArgs>>
            ELSE LET args == PostBody(downloader.rendererClient,
                                      request[r].format, out.body) IN
                 /\ renderCalls' = [renderCalls EXCEPT ![r] = @ + 1]
                 /\ renderArgs' = [renderArgs EXCEPT ![r] = args]
                 /\ pc' = [pc EXCEPT ![r] = IF args.built THEN "render" ELSE "crashed"]
                 /\ UNCHANGED <<logs, result>>
    /\ UNCHANGED <<request, contentCalls, renderResp, w, stream>>
    /\ UNCHANGED <<contentArgs, downloader, nonReqVars>>

ContentReturn(r) == ContentReturnFrom(r, ContentOutcomes)

\* PostBody returns: Download maps a failure, or builds its result from the
\* renderer's response
RenderReturn(r) ==
    /\ pc[r] = "render"
    /\ \E out \in RenderOutcomes :
         /\ renderResp' = [renderResp EXCEPT ![r] =
                              [done |-> TRUE, resp |-> out.resp, err |-> out.err]]
         /\ stream' = [stream EXCEPT ![r].exists = ~out.resp.nil]
         /\ IF ~out.err.nil
            THEN /\ logs' = [logs EXCEPT ![r] = @ \cup {"error calling renderer server"}]
                 /\ result' = [result EXCEPT ![r] = renderError(out.resp, out.err)]
            ELSE /\ result' = [result EXCEPT ![r] =
                                  renderSuccess(out.resp, request[r].uri, request[r].format)]
                 /\ UNCHANGED logs
    /\ pc' = [pc EXCEPT ![r] = "returned"]
    /\ UNCHANGED <<request, contentCalls, renderCalls, contentResp, w>>
    /\ UNCHANGED <<contentArgs, renderArgs, downloader, nonReqVars>>

\* handleDownload after Download returned: the error response, or the
\* headers, the status and the copy of the body.  io.Copy from a nil reader
\* panics before a byte is written; the deferred Close then runs.
HandleResult(r) ==
    /\ pc[r] = "returned"
    /\ LET res == result[r] IN
       IF ~res.err.nil
       THEN /\ logs' = [logs EXCEPT ![r] =
                           @ \cup {"handleDownload: Error returned from handler"}]
            /\ w' = [w EXCEPT ![r] = writeError(w[r], res)]
       ELSE \E n \in 0..Len(res.body.data), failed \in BOOLEAN :
              /\ ~failed => n = Len(res.body.data)
              /\ failed => ~res.body.nil
              /\ LET rw2 == writeHead(w[r], res)
                     rw3 == IF n = 0 THEN rw2
                            ELSE Write(rw2, SubSeq(res.body.data, 1, n))
                 IN IF failed
                    THEN /\ logs' = [logs EXCEPT ![r] =
                                @ \cup {"handleDownload: Error while copying from reader"}]
                         /\ w' = [w EXCEPT ![r] =
                                     httpError(rw3, "copy failed",
                                               StatusInternalServerError)]
                    ELSE /\ w' = [w EXCEPT ![r] = rw3]
                         /\ UNCHANGED logs
    /\ pc' = [pc EXCEPT ![r] = "written"]
    /\ UNCHANGED <<request, contentCalls, renderCalls, contentResp, renderResp,
                   result, stream>>
    /\ UNCHANGED <<contentArgs, renderArgs, downloader, nonReqVars>>

\* a plausible slip: a failed Close is reported to the client
DeferredCloseReportsError(r) ==
    /\ pc[r] = "written"
    /\ IF result[r].body.nil
       THEN /\ pc' = [pc EXCEPT ![r] = "panicked"]
            /\ UNCHANGED <<stream, logs, w>>
       ELSE \E closeFailed \in BOOLEAN :
              /\ stream' = [stream EXCEPT ![r].closes = @ + 1,
                                          ![r].closedAfterWrite = w[r].wroteHeader]
              /\ logs' = [logs EXCEPT ![r] =
                             IF closeFailed
                             THEN @ \cup {"unable to close reader cleanly"}
                             ELSE @]
              /\ w' = [w EXCEPT ![r] =
                          IF closeFailed
                          THEN httpError(@, "close failed", StatusInternalServerError)
                          ELSE @]
              /\ pc' = [pc EXCEPT ![r] = "done"]
    /\ UNCHANGED <<request, contentCalls, renderCalls, contentResp, renderResp,
                   result>>
    /\ UNCHANGED <<contentArgs, renderArgs, downloader, nonReqVars>>

\* the deferred function of handleDownload: reader.Close().  Close on a nil
\* io.ReadCloser is a nil pointer dereference: the handler panics.
DeferredClose(r) ==
    /\ pc[r] = "written"
    /\ IF result[r].body.nil
       THEN /\ pc' = [pc EXCEPT ![r] = "panicked"]
            /\ UNCHANGED <<stream, logs>>
       ELSE \E closeFailed \in BOOLEAN :
              /\ stream' = [stream EXCEPT ![r].closes = @ + 1,
                                          ![r].closedAfterWrite = w[r].wroteHeader]
              /\ logs' = [logs EXCEPT ![r] =
                             IF closeFailed
                             THEN @ \cup {"unable to close reader cleanly"}
                             ELSE @]
              /\ pc' = [pc EXCEPT ![r] = "done"]
    /\ UNCHANGED <<request, contentCalls, renderCalls, contentResp, renderResp,
                   result, w>>
    /\ UNCHANGED <<contentArgs, renderArgs, downloader, nonReqVars>>

\* the createHeaders check is not running
HdrOff ==
    /\ hpc = "off"
    /\ hUri = <<>>
    /\ hFormat = <<>>
    /\ hResponse = NilResponse
    /\ hHeaders = EmptyMap

\* no router is under observation
RouteOff ==
    /\ rpc = "off"
    /\ rDownloaders = <<>>
    /\ rRoutes = <<>>
    /\ rReq = [path |-> <<>>, method |-> "", query |-> {}]
    /\ rInvoked = [h \in {} |-> 0]
    /\ rStatus = 0

----------------------------------------------------------------------------
(* main: the server goroutine of StartDownloaderAPI, the select on the two *)
(* channels, and gracefulShutdown with its goroutine and its timeout       *)

\* make(chan os.Signal, 1) and make(chan error, 1)
SignalsCap == 1
ApiErrorsCap == 1

NoCtx == [created |-> FALSE, err |-> "nil"]

\* main has started the health checker and the API and reached its select
MainInit ==
    /\ mpc = "select"
    /\ spc = "serving"
    /\ gpc = "off"
    /\ signals = <<>>
    /\ apiErrors = <<>>
    /\ sends = 0
    /\ listenErr = "none"
    /\ httpServer = "listening"
    /\ healthcheck = "started"
    /\ gracefulCtx = NoCtx
    /\ closeErr = "none"
    /\ gracefulShutdown = FALSE
    /\ shutdownRuns = 0
    /\ steps = <<>>

\* the process has not exited
Alive == mpc \in {"select", "waitDone"}

\* signal.Notify: a SIGINT or SIGTERM is put on the channel, or dropped when
\* the channel is full
Signal ==
    /\ Alive
    /\ Len(signals) < SignalsCap
    /\ \E sig \in {"SIGINT", "SIGTERM"} : signals' = Append(signals, sig)
    /\ UNCHANGED <<mpc, spc, gpc, apiErrors, sends, listenErr, httpServer,
                   healthcheck, gracefulCtx, closeErr, gracefulShutdown,
                   shutdownRuns, steps>>
    /\ UNCHANGED <<reqVars, hdrVars, routeVars, cfgVars>>

\* the server goroutine: ListenAndServe returns an error other than
\* http.ErrServerClosed, which is logged and then sent
ListenAndServeFails ==
    /\ Alive
    /\ spc = "serving"
    /\ httpServer = "listening"
    /\ listenErr' = "listen failed"
    /\ httpServer' = "failed"
    /\ spc' = "sending"
    /\ UNCHANGED <<mpc, gpc, signals, apiErrors, sends, healthcheck, gracefulCtx,
                   closeErr, gracefulShutdown, shutdownRuns, steps>>
    /\ UNCHANGED <<reqVars, hdrVars, routeVars, cfgVars>>

\* a plausible slip: http.ErrServerClosed is sent like any other error
ListenAndServeClosedSends ==
    /\ Alive
    /\ spc = "serving"
    /\ httpServer = "shutdown"
    /\ listenErr' = "ErrServerClosed"
    /\ spc' = "sending"
    /\ UNCHANGED <<mpc, gpc, signals, apiErrors, sends, httpServer, healthcheck,
                   gracefulCtx, closeErr, gracefulShutdown, shutdownRuns, steps>>
    /\ UNCHANGED <<reqVars, hdrVars, routeVars, cfgVars>>

\* the server goroutine: after Shutdown ListenAndServe returns
\* http.ErrServerClosed, and the goroutine ends without a send
ListenAndServeClosed ==
    /\ Alive
    /\ spc = "serving"
    /\ httpServer = "shutdown"
    /\ listenErr' = "ErrServerClosed"
    /\ spc' = "done"
    /\ UNCHANGED <<mpc, gpc, signals, apiErrors, sends, httpServer, healthcheck,
                   gracefulCtx, closeErr, gracefulShutdown, shutdownRuns, steps>>
    /\ UNCHANGED <<reqVars, hdrVars, routeVars, cfgVars>>

\* the server goroutine: errorChan <- err, which waits while the channel is
\* full
SendError ==
    /\ Alive
    /\ spc = "sending"
    /\ Len(apiErrors) < ApiErrorsCap
    /\ apiErrors' = Append(apiErrors, listenErr)
    /\ sends' = sends + 1
    /\ spc' = "done"
    /\ UNCHANGED <<mpc, gpc, signals, listenErr, httpServer, healthcheck,
                   gracefulCtx, closeErr, gracefulShutdown, shutdownRuns, steps>>
    /\ UNCHANGED <<reqVars, hdrVars, routeVars, cfgVars>>

\* main's select: one ready case is taken, and gracefulShutdown is called:
\* the context with the timeout is made and the goroutine is started
Select ==
    /\ mpc = "select"
    /\ \/ /\ apiErrors # <<>>
          /\ apiErrors' = Tail(apiErrors)
          /\ UNCHANGED signals
       \/ /\ signals # <<>>
          /\ signals' = Tail(signals)
          /\ UNCHANGED apiErrors
    /\ shutdownRuns' = shutdownRuns + 1
    /\ gracefulCtx' = [created |-> TRUE, err |-> "nil"]
    /\ gpc' = "stopHealth"
    /\ mpc' = "waitDone"
    /\ UNCHANGED <<spc, sends, listenErr, httpServer, healthcheck, closeErr,
                   gracefulShutdown, steps>>
    /\ UNCHANGED <<reqVars, hdrVars, routeVars, cfgVars>>

\* the shutdown goroutine: healthcheck.Stop()
HealthcheckStop ==
    /\ Alive
    /\ gpc = "stopHealth"
    /\ healthcheck' = "stopped"
    /\ steps' = Append(steps, "healthcheck.Stop")
    /\ gpc' = "close"
    /\ UNCHANGED <<mpc, spc, signals, apiErrors, sends, listenErr, httpServer,
                   gracefulCtx, closeErr, gracefulShutdown, shutdownRuns>>
    /\ UNCHANGED <<reqVars, hdrVars, routeVars, cfgVars>>

\* the shutdown goroutine: api.Close is called, httpServer.Shutdown begins
Close ==
    /\ Alive
    /\ gpc = "close"
    /\ httpServer' = IF httpServer = "listening" THEN "shutdown" ELSE httpServer
    /\ steps' = Append(steps, "api.Close")
    /\ gpc' = "closing"
    /\ UNCHANGED <<mpc, spc, signals, apiErrors, sends, listenErr, healthcheck,
                   gracefulCtx, closeErr, gracefulShutdown, shutdownRuns>>
    /\ UNCHANGED <<reqVars, hdrVars, routeVars, cfgVars>>

\* what httpServer.Shutdown can return: nil, the error of closing the
\* listener, or the context's error once the context is done
CloseOutcomes ==
    {"nil", "close failed"} \cup
        (IF gracefulCtx.err # "nil" THEN {gracefulCtx.err} ELSE {})

\* the shutdown goroutine: api.Close returns; an error sets hasShutdownErrs,
\* and without one gracefulShutdown is set
CloseReturn ==
    /\ Alive
    /\ gpc = "closing"
    /\ \E err \in CloseOutcomes :
         /\ closeErr' = err
         /\ gracefulShutdown' = (err = "nil")
    /\ steps' = Append(steps, "api.Close returned")
    /\ gpc' = "cancel"
    /\ UNCHANGED <<mpc, spc, signals, apiErrors, sends, listenErr, httpServer,
                   healthcheck, gracefulCtx, shutdownRuns>>
    /\ UNCHANGED <<reqVars, hdrVars, routeVars, cfgVars>>

\* a plausible slip: cancel is called at once and not deferred
CancelAtOnce ==
    /\ Alive
    /\ gpc = "stopHealth"
    /\ gracefulCtx' = IF gracefulCtx.err = "nil"
                      THEN [gracefulCtx EXCEPT !.err = "Canceled"]
                      ELSE gracefulCtx
    /\ steps' = Append(steps, "cancel")
    /\ gpc' = "done"
    /\ UNCHANGED <<mpc, spc, signals, apiErrors, sends, listenErr, httpServer,
                   healthcheck, closeErr, gracefulShutdown, shutdownRuns>>
    /\ UNCHANGED <<reqVars, hdrVars, routeVars, cfgVars>>

\* the shutdown goroutine: the deferred cancel(); a context that is done
\* keeps its error
Cancel ==
    /\ Alive
    /\ gpc = "cancel"
    /\ gracefulCtx' = IF gracefulCtx.err = "nil"
                      THEN [gracefulCtx EXCEPT !.err = "Canceled"]
                      ELSE gracefulCtx
    /\ steps' = Append(steps, "cancel")
    /\ gpc' = "done"
    /\ UNCHANGED <<mpc, spc, signals, apiErrors, sends, listenErr, httpServer,
                   healthcheck, closeErr, gracefulShutdown, shutdownRuns>>
    /\ UNCHANGED <<reqVars, hdrVars, routeVars, cfgVars>>

\* context.WithTimeout: the timeout elapses on a context that is not done
Timeout ==
    /\ Alive
    /\ gracefulCtx.created
    /\ gracefulCtx.err = "nil"
    /\ gracefulCtx' = [gracefulCtx EXCEPT !.err = "DeadlineExceeded"]
    /\ UNCHANGED <<mpc, spc, gpc, signals, apiErrors, sends, listenErr,
                   httpServer, healthcheck, closeErr, gracefulShutdown,
                   shutdownRuns, steps>>
    /\ UNCHANGED <<reqVars, hdrVars, routeVars, cfgVars>>

\* a plausible slip: the flag is not looked at
AwaitDoneWithoutFlag ==
    /\ mpc = "waitDone"
    /\ gracefulCtx.err # "nil"
    /\ mpc' = IF gracefulCtx.err = "DeadlineExceeded" THEN "exit1" ELSE "exit0"
    /\ UNCHANGED <<spc, gpc, signals, apiErrors, sends, listenErr, httpServer,
                   healthcheck, gracefulCtx, closeErr, gracefulShutdown,
                   shutdownRuns, steps>>
    /\ UNCHANGED <<reqVars, hdrVars, routeVars, cfgVars>>

\* gracefulShutdown after <-gracefulCtx.Done(): os.Exit(1) on a deadline or
\* without the flag, else "graceful shutdown complete" and main returns
AwaitDone ==
    /\ mpc = "waitDone"
    /\ gracefulCtx.err # "nil"
    /\ mpc' = IF gracefulCtx.err = "DeadlineExceeded" THEN "exit1"
              ELSE IF ~gracefulShutdown THEN "exit1"
              ELSE "exit0"
    /\ UNCHANGED <<spc, gpc, signals, apiErrors, sends, listenErr, httpServer,
                   healthcheck, gracefulCtx, closeErr, gracefulShutdown,
                   shutdownRuns, steps>>
    /\ UNCHANGED <<reqVars, hdrVars, routeVars, cfgVars>>

----------------------------------------------------------------------------
(* config.Get.  A time.Duration is counted in seconds.                     *)

Second == 1
Minute == 60 * Second
Hour == 60 * Minute

\* the fields of Config in the order of the struct, each with the key
\* envconfig reads it from: the envconfig tag, or without one (the tag of
\* OTBatchTimeout is spelt encconfig) the field's name in upper case
Fields ==
    <<[name |-> "BindAddr", key |-> "BIND_ADDR", type |-> "string"],
      [name |-> "CORSAllowedOrigins", key |-> "CORS_ALLOWED_ORIGINS", type |-> "string"],
      [name |-> "ShutdownTimeout", key |-> "SHUTDOWN_TIMEOUT", type |-> "duration"],
      [name |-> "HealthCheckCriticalTimeout", key |-> "HEALTHCHECK_CRITICAL_TIMEOUT",
       type |-> "duration"],
      [name |-> "HealthCheckInterval", key |-> "HEALTHCHECK_INTERVAL", type |-> "duration"],
      [name |-> "OTBatchTimeout", key |-> "OTBATCHTIMEOUT", type |-> "duration"],
      [name |-> "OTServiceName", key |-> "OTEL_SERVICE_NAME", type |-> "string"],
      [name |-> "OTExporterOTLPEndpoint", key |-> "OTEL_EXPORTER_OTLP_ENDPOINT",
       type |-> "string"],
      [name |-> "TableRendererHost", key |-> "TABLE_RENDERER_HOST", type |-> "string"],
      [name |-> "ContentServerHost", key |-> "CONTENT_SERVER_HOST", type |-> "string"],
      [name |-> "APIRouterURL", key |-> "API_ROUTER_URL", type |-> "string"]>>

Keys == {Fields[i].key : i \in 1..Len(Fields)}

\* a plausible slip: the critical timeout left at a minute
defaultConfigShortTimeout ==
    [BindAddr |-> <<":23400">>,
     CORSAllowedOrigins |-> <<"*">>,
     ShutdownTimeout |-> 5 * Second,
     HealthCheckCriticalTimeout |-> 60 * Second,
     HealthCheckInterval |-> 30 * Second,
     OTBatchTimeout |-> 5 * Second,
     OTExporterOTLPEndpoint |-> <<"localhost:4317">>,
     OTServiceName |-> <<"dp-file-downloader">>,
     TableRendererHost |-> <<"http://localhost:23300">>,
     ContentServerHost |-> <<"http://localhost:8082">>,
     APIRouterURL |-> <<"http://localhost:23200/v1">>]

\* Get, the Config literal
defaultConfig ==
    [BindAddr |-> <<":23400">>,
     CORSAllowedOrigins |-> <<"*">>,
     ShutdownTimeout |-> 5 * Second,
     HealthCheckCriticalTimeout |-> 90 * Second,
     HealthCheckInterval |-> 30 * Second,
     OTBatchTimeout |-> 5 * Second,
     OTExporterOTLPEndpoint |-> <<"localhost:4317">>,
     OTServiceName |-> <<"dp-file-downloader">>,
     TableRendererHost |-> <<"http://localhost:23300">>,
     ContentServerHost |-> <<"http://localhost:8082">>,
     APIRouterURL |-> <<"http://localhost:23200/v1">>]

Digits == {"0", "1", "2", "3", "4", "5", "6", "7", "8", "9"}

DigitValue(c) ==
    CASE c = "0" -> 0 [] c = "1" -> 1 [] c = "2" -> 2 [] c = "3" -> 3
      [] c = "4" -> 4 [] c = "5" -> 5 [] c = "6" -> 6 [] c = "7" -> 7
      [] c = "8" -> 8 [] c = "9" -> 9

RECURSIVE Number(_)
Number(s) ==
    IF s = <<>> THEN 0
    ELSE 10 * Number(SubSeq(s, 1, Len(s) - 1)) + DigitValue(s[Len(s)])

\* time.ParseDuration for a decimal number followed by one of the units s,
\* m and h; every other text drawn here ("", "bad") is refused by it
ParseDuration(s) ==
    IF /\ Len(s) >= 2
       /\ s[Len(s)] \in {"s", "m", "h"}
       /\ \A i \in 1..(Len(s) - 1) : s[i] \in Digits
    THEN [ok |-> TRUE,
          d |-> Number(SubSeq(s, 1, Len(s) - 1)) *
                  (CASE s[Len(s)] = "s" -> Second
                     [] s[Len(s)] = "m" -> Minute
                     [] s[Len(s)] = "h" -> Hour)]
    ELSE [ok |-> FALSE, d |-> 0]

Unset == [set |-> FALSE, v |-> <<>>]
Setenv(v) == [set |-> TRUE, v |-> v]

\* envconfig.Process: the fields in order; a variable that is not set
\* leaves its field alone, a set one is assigned to it, and the first value
\* that does not parse ends the processing with an error
RECURSIVE ProcessFrom(_, _, _)
ProcessFrom(c, e, i) ==
    IF i > Len(Fields)
    THEN [c |-> c, err |-> NilErr]
    ELSE LET f == Fields[i] IN
         IF ~e[f.key].set
         THEN ProcessFrom(c, e, i + 1)
         ELSE IF f.type = "string"
         THEN ProcessFrom([c EXCEPT ![f.name] = e[f.key].v], e, i + 1)
         ELSE LET p == ParseDuration(e[f.key].v) IN
              IF p.ok
              THEN ProcessFrom([c EXCEPT ![f.name] = p.d], e, i + 1)
              ELSE [c |-> c, err |-> NewError("envconfig.Process: invalid duration")]

Process(c, e) == ProcessFrom(c, e, 1)

NilConfig == [nil |-> TRUE, c |-> defaultConfig]
NoReturn == [cfg |-> NilConfig, err |-> NilErr]
NoEnv == [k \in Keys |-> Unset]

\* the environments a process is started in
Envs ==
    {[k \in Keys |->
        CASE k = "BIND_ADDR" -> b
          [] k = "CORS_ALLOWED_ORIGINS" -> o
          [] k = "SHUTDOWN_TIMEOUT" -> t
          [] k = "HEALTHCHECK_INTERVAL" -> h
          [] k = "TABLE_RENDERER_HOST" -> x
          [] OTHER -> Unset] :
        b \in {Unset, Setenv(<<":8080">>)},
        o \in {Unset, Setenv(<<>>)},
        t \in {Unset, Setenv(<<"1", "0", "s">>), Setenv(<<"b", "a", "d">>)},
        h \in {Unset, Setenv(<<"2", "m">>), Setenv(<<>>)},
        x \in {Unset, Setenv(<<"http://renderer:23300">>)}}

\* a process that has not called Get, started without environment variables
CfgOff ==
    /\ env = NoEnv
    /\ cfg = NilConfig
    /\ cfgRet = NoReturn
    /\ getCalls = 0

InitConfig ==
    /\ ReqInit
    /\ MainInit
    /\ HdrOff
    /\ RouteOff
    /\ env \in Envs
    /\ cfg = NilConfig
    /\ cfgRet = NoReturn
    /\ getCalls = 0

\* config.Get
Get ==
    /\ getCalls < MaxGets
    /\ getCalls' = getCalls + 1
    /\ IF ~cfg.nil
       THEN /\ cfgRet' = [cfg |-> cfg, err |-> NilErr]
            /\ UNCHANGED cfg
       ELSE LET p == Process(defaultConfig, env) IN
            /\ cfg' = [nil |-> FALSE, c |-> p.c]
            /\ cfgRet' = [cfg |-> [nil |-> FALSE, c |-> p.c], err |-> p.err]
    /\ UNCHANGED <<env, reqVars, hdrVars, routeVars, mainVars>>

NextConfig == Get

SpecConfig == InitConfig /\ [][NextConfig]_vars

----------------------------------------------------------------------------

Init ==
    /\ ReqInit
    /\ HdrOff
    /\ RouteOff
    /\ CfgOff
    /\ MainInit

Next ==
    \E r \in Reqs :
        \/ Receive(r)
        \/ ContentReturn(r)
        \/ RenderReturn(r)
        \/ HandleResult(r)
        \/ DeferredClose(r)

Spec == Init /\ [][Next]_vars

NextMain ==
    \/ Signal
    \/ ListenAndServeFails
    \/ ListenAndServeClosed
    \/ SendError
    \/ Select
    \/ HealthcheckStop
    \/ Close
    \/ CloseReturn
    \/ Cancel
    \/ Timeout
    \/ AwaitDone

SpecMain == Init /\ [][NextMain]_vars

\* the timer of the context fires and main is scheduled; nothing is asked of
\* the shutdown goroutine, whose steps may take for ever
SpecMainLive == SpecMain /\ WF_vars(Timeout) /\ WF_vars(AwaitDone)

\* Download alone, called for several requests at once: its steps in every
\* interleaving, without the handler's writing of the response
NextDownload ==
    \E r \in Reqs :
        \/ Receive(r)
        \/ ContentReturn(r)
        \/ RenderReturn(r)

SpecDownload == Init /\ [][NextDownload]_vars

----------------------------------------------------------------------------
(* createHeaders on its own: every uri made of at most MaxParts tokens *)

Tokens == {<<"/">>, <<"b">>, dotJSON, <<"j", "s", "o", "n">>}

RECURSIVE UriSet(_)
UriSet(n) ==
    IF n = 0
    THEN {<<>>}
    ELSE UriSet(n - 1) \cup {u \o t : u \in UriSet(n - 1), t \in Tokens}

InitHeaders ==
    /\ ReqInit
    /\ MainInit
    /\ RouteOff
    /\ CfgOff
    /\ hpc = "input"
    /\ hUri \in UriSet(MaxParts) \cup {fooBarJSON, fooBar}
    /\ hFormat \in {<<>>, html, csv}
    /\ hResponse \in {Response(StatusOK, ct, Body(renderBody)) : ct \in {textHTML, textCSV}}
    /\ hHeaders = EmptyMap

ApplyCreateHeaders ==
    /\ hpc = "input"
    /\ hHeaders' = createHeaders(hResponse, hUri, hFormat)
    /\ hpc' = "applied"
    /\ UNCHANGED <<hUri, hFormat, hResponse>>
    /\ UNCHANGED <<reqVars, routeVars, cfgVars, mainVars>>

NextHeaders == ApplyCreateHeaders

SpecHeaders == InitHeaders /\ [][NextHeaders]_vars

----------------------------------------------------------------------------
(* handleDownload around any Downloader: the handler function returns any   *)
(* combination of body, headers, status and error, as the test double does *)

\* the headers and the body of the test double
responseHeaders ==
    [k \in {"Content-Type", "Content-Disposition"} |->
        IF k = "Content-Type"
        THEN <<"text/plain">>
        ELSE attachmentPrefix \o <<"fname.ext">> \o quote]
mockBody == <<"Mock ", "invocation">>

HandlerResults ==
    {Result(b, h, st, e) :
        b \in {NilBody, Body(mockBody)},
        h \in {NilHeaders, Headers(responseHeaders)},
        st \in {StatusOK, StatusBadRequest},
        e \in {NilErr, NewError("This is an error")}}

\* handler(request) returns
MockDownload(r) ==
    /\ pc[r] = "idle"
    /\ \E res \in HandlerResults :
         /\ result' = [result EXCEPT ![r] = res]
         /\ stream' = [stream EXCEPT ![r].exists = ~res.body.nil]
    /\ pc' = [pc EXCEPT ![r] = "returned"]
    /\ UNCHANGED <<request, contentCalls, renderCalls, contentResp, renderResp,
                   w, logs>>
    /\ UNCHANGED <<contentArgs, renderArgs, downloader, nonReqVars>>

NextHandler ==
    \E r \in Reqs :
        \/ MockDownload(r)
        \/ HandleResult(r)
        \/ DeferredClose(r)

SpecHandler == Init /\ [][NextHandler]_vars

----------------------------------------------------------------------------
(* Download's two calls, over more requests and payloads: one request     *)
(* whose token, collection id and locale vary, whose format may make the   *)
(* renderer's url unparsable, and two payloads from the content server     *)

ArgFormats == {<<>>, html, csv, <<"%">>}

\* a value whose extraction reported an error is the empty string, as the
\* extracting functions return it
ArgRequests ==
    {req \in [format : ArgFormats, uri : {fooBarJSON, fooBar},
              accessToken : {"", "myAccessToken"},
              collectionID : {"", "myCollection"}, locale : {"en", "cy"},
              collectionErr : BOOLEAN, tokenErr : BOOLEAN] :
        /\ req.tokenErr => req.accessToken = ""
        /\ req.collectionErr => req.collectionID = ""}

ArgOutcomes == ContentOutcomes \cup {[body |-> "{}", err |-> NilErr]}

ReceiveArgs == ReceiveFrom(1, ArgRequests)

ContentReturnArgs == ContentReturnFrom(1, ArgOutcomes)

NextArgs ==
    \/ ReceiveArgs
    \/ ContentReturnArgs
    \/ RenderReturn(1)

SpecArgs == Init /\ [][NextArgs]_vars

----------------------------------------------------------------------------
(* routes: the gorilla/mux router holding one route per Downloader *)

\* the Downloaders a router is built from: table.Downloader and the test
\* double; each has a Type and the QueryParameters it requires
tableDownloader == [type |-> "table", params |-> <<"format", "uri">>]
mockDownloader == [type |-> "mock", params |-> <<"my-query-param">>]
DownloaderLists ==
    {<<>>, <<tableDownloader>>, <<mockDownloader>>,
     <<tableDownloader, mockDownloader>>, <<mockDownloader, tableDownloader>>}

\* queries = append(queries, q, "{"+q+"}") for each query parameter
Queries(params) ==
    [i \in 1..Len(params) |-> [key |-> params[i], value |-> <<"{", params[i], "}">>]]

healthRoute ==
    [path |-> <<"/health">>, methods |-> {}, queries |-> <<>>, handler |-> "health"]

\* a plausible slip: the query parameters are not made part of the route
routesNoQueries(downloaders) ==
    <<healthRoute>> \o
    [i \in 1..Len(downloaders) |->
        [path |-> <<"/download/", downloaders[i].type>>,
         methods |-> {"GET"},
         queries |-> <<>>,
         handler |-> downloaders[i].type]]

\* routes: the health route, then for each Downloader a GET route on
\* "/download/" + d.Type() with its queries, handled by handleDownload(d.Download)
routes(downloaders) ==
    <<healthRoute>> \o
    [i \in 1..Len(downloaders) |->
        [path |-> <<"/download/", downloaders[i].type>>,
         methods |-> {"GET"},
         queries |-> Queries(downloaders[i].params),
         handler |-> downloaders[i].type]]

\* mux: the path and every query of the route match the request; a query
\* "{q}" matches any value, so only the key has to be present
PathAndQueriesMatch(route, req) ==
    /\ route.path = req.path
    /\ \A i \in 1..Len(route.queries) : route.queries[i].key \in req.query

\* mux: the method matcher, absent on a route without Methods
MethodMatches(route, req) ==
    route.methods = {} \/ req.method \in route.methods

RouteMatches(route, req) ==
    PathAndQueriesMatch(route, req) /\ MethodMatches(route, req)

RoutedRequests ==
    [path : {<<"/health">>, <<"/download/", "table">>, <<"/download/", "mock">>,
             <<"/download/", "foo">>},
     method : {"GET", "POST"},
     query : SUBSET {"format", "uri", "my-query-param"}]

InitRoutes ==
    /\ ReqInit
    /\ MainInit
    /\ HdrOff
    /\ CfgOff
    /\ rpc = "idle"
    /\ rDownloaders \in DownloaderLists
    /\ rRoutes = routes(rDownloaders)
    /\ rReq = [path |-> <<>>, method |-> "", query |-> {}]
    /\ rInvoked = [h \in {"health", "table", "mock"} |-> 0]
    /\ rStatus = 0

\* router.ServeHTTP: the first matching route's handler is invoked; without
\* one the router answers 404, or 405 when only the method kept a route from
\* matching (mux versions differ on that, so either is possible)
ServeHTTP ==
    /\ rpc = "idle"
    /\ \E req \in RoutedRequests :
         LET matching == {i \in 1..Len(rRoutes) : RouteMatches(rRoutes[i], req)}
             methodOnly == {i \in 1..Len(rRoutes) :
                               PathAndQueriesMatch(rRoutes[i], req)}
         IN /\ rReq' = req
            /\ IF matching # {}
               THEN LET first == CHOOSE i \in matching : \A j \in matching : i <= j
                    IN /\ rInvoked' = [rInvoked EXCEPT ![rRoutes[first].handler] = @ + 1]
                       /\ rStatus' = 0
               ELSE /\ UNCHANGED rInvoked
                    /\ rStatus' \in (IF methodOnly # {}
                                     THEN {StatusNotFound, 405}
                                     ELSE {StatusNotFound})
    /\ rpc' = "served"
    /\ UNCHANGED <<rDownloaders, rRoutes>>
    /\ UNCHANGED <<reqVars, hdrVars, cfgVars, mainVars>>

NextRoutes == ServeHTTP

SpecRoutes == InitRoutes /\ [][NextRoutes]_vars

----------------------------------------------------------------------------
(* Properties *)

\* Download has returned for request r
Returned(r) == pc[r] \in {"returned", "written", "done", "panicked"}

\* handleDownload has run to its end for request r, normally or by a panic
Finished(r) == pc[r] \in {"done", "panicked"}

\* the part of uri after its last "/", the whole uri when it has none
AfterLastSlash(uri) ==
    LET idx == {i \in 1..Len(uri) : uri[i] = "/"} IN
    IF idx = {}
    THEN uri
    ELSE LET last == CHOOSE i \in idx : \A j \in idx : j <= i
         IN [k \in 1..(Len(uri) - last) |-> uri[last + k]]

\* seg with one trailing ".json" removed if it has one
WithoutJSON(seg) ==
    IF \E stem \in {SubSeq(seg, 1, n) : n \in 0..Len(seg)} : stem \o dotJSON = seg
    THEN CHOOSE stem \in {SubSeq(seg, 1, n) : n \in 0..Len(seg)} : stem \o dotJSON = seg
    ELSE seg

\* attachment; filename="<basename>.<format>"
Disposition(uri, format) ==
    attachmentPrefix \o WithoutJSON(AfterLastSlash(uri)) \o <<".">> \o format \o quote

C2_SuccessRelaysRenderer ==
    \A r \in Reqs :
        (renderResp[r].done /\ renderResp[r].err.nil) =>
            /\ Returned(r)
            /\ contentResp[r].done /\ contentResp[r].err.nil
            /\ result[r].err.nil
            /\ result[r].status = renderResp[r].resp.StatusCode
            /\ result[r].body = renderResp[r].resp.Body
            /\ ~result[r].headers.nil
            /\ result[r].headers.m["Content-Type"] = renderResp[r].resp.ContentType
            /\ result[r].headers.m["Content-Disposition"] =
                   Disposition(request[r].uri, request[r].format)

C2_Witness ==
    \E r \in Reqs :
        /\ Returned(r)
        /\ renderResp[r].done /\ renderResp[r].err.nil
        /\ renderResp[r].resp.StatusCode = StatusInternalServerError
        /\ result[r].status = StatusInternalServerError
        /\ request[r].uri = fooBarJSON

OtherContentFailure(r) ==
    /\ contentResp[r].done
    /\ ~contentResp[r].err.nil
    /\ contentResp[r].err # ErrInvalidZebedeeResponse(StatusNotFound)
    /\ contentResp[r].err # ErrInvalidZebedeeResponse(StatusInternalServerError)

\* C5 as stated: every content-client failure other than upstream 404 and
\* upstream 500 gives 400 with the error, and the renderer is not called.
C5_Original ==
    \A r \in Reqs :
        OtherContentFailure(r) =>
            /\ Returned(r)
            /\ result[r].status = StatusBadRequest
            /\ result[r].err = contentResp[r].err
            /\ renderCalls[r] = 0

\* C5: every content-client failure that carries an upstream status other
\* than 404 and 500 gives 400 with the error; a failure that carries no
\* upstream status gives 500 with the error; in both cases the renderer is
\* not called.
C5_OtherUpstreamStatusIsBadRequest ==
    \A r \in Reqs :
        OtherContentFailure(r) =>
            /\ Returned(r)
            /\ result[r].status =
                   (IF contentResp[r].err.kind = "zebedee"
                    THEN StatusBadRequest
                    ELSE StatusInternalServerError)
            /\ result[r].err = contentResp[r].err
            /\ renderCalls[r] = 0

C5_Witness ==
    \E r \in Reqs :
        /\ Returned(r)
        /\ contentResp[r].err = ErrInvalidZebedeeResponse(503)
        /\ result[r].status = StatusBadRequest

\* C6: when the renderer returns an error, Download returns 500 with exactly
\* that error, a nil body and nil headers.
C6_RenderError ==
    \A r \in Reqs :
        (renderResp[r].done /\ ~renderResp[r].err.nil) =>
            /\ Returned(r)
            /\ contentResp[r].err.nil
            /\ result[r] = Result(NilBody, NilHeaders, StatusInternalServerError,
                                  renderResp[r].err)

C6_Witness ==
    \E r \in Reqs :
        /\ Returned(r)
        /\ renderResp[r].done /\ ~renderResp[r].err.nil
        /\ ~renderResp[r].resp.nil
        /\ result[r].status = StatusInternalServerError

\* C7: createHeaders gives Content-Disposition = attachment;
\* filename="<basename>.<format>", the basename being the part of the uri
\* after its last "/" with one trailing .json removed; /foo/bar.json with
\* html gives bar.html, and /foo/bar keeps bar.
C7_ContentDisposition ==
    hpc = "applied" =>
        /\ hHeaders["Content-Disposition"] = Disposition(hUri, hFormat)
        /\ (hUri \in {fooBarJSON, fooBar} /\ hFormat = html) =>
               hHeaders["Content-Disposition"] = attachmentPrefix \o barHTML \o quote

C7_Witness ==
    /\ hpc = "applied"
    /\ hUri = <<"/", "b", ".", "j", "s", "o", "n", ".", "j", "s", "o", "n">>
    /\ hFormat = csv
    /\ hHeaders["Content-Disposition"] =
           attachmentPrefix \o <<"b", ".", "j", "s", "o", "n", ".", "c", "s", "v">> \o quote

\* C8: within one request each backend client is called at most once, and
\* the renderer is called only after the content fetch has returned without
\* error.
C8_OneFetchThenOneRender ==
    \A r \in Reqs :
        /\ contentCalls[r] <= 1
        /\ renderCalls[r] <= 1
        /\ renderCalls[r] > 0 =>
               /\ contentCalls[r] = 1
               /\ contentResp[r].done
               /\ contentResp[r].err.nil
        /\ pc[r] = "content" => renderCalls[r] = 0

C8_Witness ==
    \E r \in Reqs :
        /\ pc[r] = "render"
        /\ contentCalls[r] = 1
        /\ renderCalls[r] = 1

\* C9 as stated: Download does not close the body, and on every exit path of
\* handleDownload the body is closed exactly once, after the response has
\* been written.
C9_Original ==
    \A r \in Reqs :
        /\ pc[r] = "returned" => stream[r].closes = 0
        /\ Finished(r) => (stream[r].closes = 1 /\ stream[r].closedAfterWrite)

C11_FailureResponses ==
    \A r \in Reqs :
        pc[r] \in {"written", "done", "panicked"} =>
            /\ ~result[r].err.nil =>
                   /\ w[r].wroteHeader
                   /\ w[r].status \in {StatusBadRequest, StatusNotFound,
                                       StatusInternalServerError}
                   /\ "Content-Disposition" \notin DOMAIN w[r].sent
                   /\ "Content-Disposition" \notin DOMAIN w[r].header
            /\ "Content-Disposition" \in DOMAIN w[r].sent =>
                   /\ renderResp[r].done
                   /\ renderResp[r].err.nil

C11_Witness ==
    \E r \in Reqs :
        /\ pc[r] = "written"
        /\ contentResp[r].err = ErrInvalidZebedeeResponse(503)
        /\ w[r].status = StatusBadRequest
        /\ \E q \in Reqs : pc[q] = "written" /\ "Content-Disposition" \in DOMAIN w[q].sent

\* handleDownload has written its response for request r
Written(r) == pc[r] \in {"written", "done", "panicked"}

\* io.Copy returned an error for request r
CopyFailed(r) == "handleDownload: Error while copying from reader" \in logs[r]

\* the values of a header that went out
SentValues(r, k) ==
    IF k \in DOMAIN w[r].sent
    THEN {w[r].sent[k][i] : i \in 1..Len(w[r].sent[k])}
    ELSE {}

\* C12: when the handler function returns a non-nil error, the response
\* status is the returned status if that is at least 400 and 500 otherwise,
\* the body is the error's message (http.Error ends it with a newline), and
\* none of the returned headers is written.
C12_ErrorResponse ==
    \A r \in Reqs :
        (Written(r) /\ ~result[r].err.nil) =>
            /\ w[r].wroteHeader
            /\ w[r].status = (IF result[r].status >= 400
                              THEN result[r].status
                              ELSE StatusInternalServerError)
            /\ w[r].status >= 400
            /\ w[r].body = <<result[r].err.msg, "\n">>
            /\ \A k \in DOMAIN result[r].headers.m :
                   result[r].headers.m[k] \notin SentValues(r, k)

C12_Witness ==
    \E r \in Reqs :
        /\ pc[r] = "done"
        /\ ~result[r].err.nil
        /\ result[r].status = StatusOK
        /\ result[r].headers = Headers(responseHeaders)
        /\ w[r].status = StatusInternalServerError

Registered == {rDownloaders[i] : i \in 1..Len(rDownloaders)}

\* the request names every query parameter of d
HasAllParams(d) == \A i \in 1..Len(d.params) : d.params[i] \in rReq.query

\* C14: for each Downloader d there is a GET route at /download/<d.Type()>
\* requiring every query parameter of d; a matching request invokes
\* d.Download exactly once and no other handler, a request lacking a
\* parameter does not invoke it, and a request to /download/<other type>
\* gets 404 with no Downloader invoked.
C14_Routing ==
    /\ rpc # "off" =>
           \A d \in Registered :
               \E i \in 1..Len(rRoutes) :
                   /\ rRoutes[i].path = <<"/download/", d.type>>
                   /\ rRoutes[i].methods = {"GET"}
                   /\ rRoutes[i].handler = d.type
                   /\ {rRoutes[i].queries[j].key : j \in 1..Len(rRoutes[i].queries)}
                          = {d.params[j] : j \in 1..Len(d.params)}
    /\ rpc = "served" =>
           /\ \A d \in Registered :
                  /\ (rReq.path = <<"/download/", d.type>> /\ rReq.method = "GET"
                          /\ HasAllParams(d)) =>
                         /\ rInvoked[d.type] = 1
                         /\ \A h \in DOMAIN rInvoked \ {d.type} : rInvoked[h] = 0
                  /\ ~HasAllParams(d) => rInvoked[d.type] = 0
           /\ (rReq.path[1] = "/download/"
                   /\ \A d \in Registered : d.type # rReq.path[2]) =>
                  /\ rStatus = StatusNotFound
                  /\ \A h \in DOMAIN rInvoked : rInvoked[h] = 0

C14_Witness ==
    /\ rpc = "served"
    /\ rDownloaders = <<mockDownloader, tableDownloader>>
    /\ rReq.path = <<"/download/", "table">>
    /\ rReq.method = "GET"
    /\ rReq.query = {"format", "uri"}
    /\ rInvoked["table"] = 1

\* C15 as stated: when the copy of the body fails after streaming has begun,
\* the status and headers already sent stay as they are and nothing is
\* written to the response after the failure.
C15_Original ==
    \A r \in Reqs :
        (Written(r) /\ CopyFailed(r)) =>
            /\ w[r].status = result[r].status
            /\ \A k \in DOMAIN w[r].sent : k \in DOMAIN result[r].headers.m
            /\ \E n \in 0..Len(result[r].body.data) :
                   w[r].body = SubSeq(result[r].body.data, 1, n)

\* C16: a failure to close the body stream is only logged: the step that
\* logs it leaves the response as it is, and it is the last step of the
\* handler, taken after the response was written.
C16_CloseFailureOnlyLogged ==
    [][\A r \in Reqs :
          ("unable to close reader cleanly" \in logs'[r]
              /\ "unable to close reader cleanly" \notin logs[r]) =>
              /\ w'[r] = w[r]
              /\ pc[r] = "written"
              /\ pc'[r] = "done"]_vars

C16_Witness ==
    \E r \in Reqs :
        /\ pc[r] = "done"
        /\ "unable to close reader cleanly" \in logs[r]
        /\ w[r].body = renderBody
        /\ stream[r].closes = 1

ContentFailureStatus(err) ==
    IF err.kind = "zebedee" /\ err.code = StatusNotFound
    THEN StatusNotFound
    ELSE IF err.kind = "zebedee" /\ err.code # StatusInternalServerError
    THEN StatusBadRequest
    ELSE StatusInternalServerError

\* what Download returns, told from nothing but a request's own parameters
\* and the answers to its own two calls
OwnResult(req, content, render) ==
    IF req.format = <<>> \/ req.uri = <<>>
    THEN Result(NilBody, NilHeaders, StatusBadRequest, NewError("bad request"))
    ELSE IF ~content.err.nil
    THEN Result(NilBody, NilHeaders, ContentFailureStatus(content.err), content.err)
    ELSE IF ~render.err.nil
    THEN Result(NilBody, NilHeaders, StatusInternalServerError, render.err)
    ELSE Result(render.resp.Body,
                Headers([k \in {"Content-Type", "Content-Disposition"} |->
                            IF k = "Content-Type"
                            THEN render.resp.ContentType
                            ELSE Disposition(req.uri, req.format)]),
                render.resp.StatusCode, NilErr)

\* everything the model keeps for request r
RequestState(r) ==
    <<pc[r], request[r], contentCalls[r], renderCalls[r], contentResp[r],
      renderResp[r], result[r], w[r], stream[r], logs[r], contentArgs[r],
      renderArgs[r]>>

\* C18: whatever the interleaving of the requests, what Download returned
\* for a request is told by that request's own parameters and the answers
\* to its own calls; no step writes the Downloader's two client handles, and
\* a step of one request changes nothing of another request.
C18_RequestsIndependent ==
    [][/\ downloader' = downloader
       /\ \A r \in Reqs :
              pc'[r] \in {"returned", "written", "done", "panicked"} =>
                  result'[r] = OwnResult(request'[r], contentResp'[r], renderResp'[r])
       /\ \A r \in Reqs :
              pc'[r] # pc[r] =>
                  \A q \in Reqs \ {r} : RequestState(q)' = RequestState(q)
       /\ \A r \in Reqs :
              pc'[r] = pc[r] => RequestState(r)' = RequestState(r)]_vars

C18_Witness ==
    /\ downloader = NewDownloader(zc, tabrend)
    /\ Returned(1) /\ Returned(2)
    /\ request[1] = request[2]
    /\ result[1].status = StatusNotFound
    /\ result[2].status = StatusOK
    /\ ~result[2].headers.nil
    /\ renderCalls[1] = 0 /\ renderCalls[2] = 1

\* C19: GetResourceBody is given the request's access token, collection id,
\* locale and uri as they are; PostBody is given the request's format and the
\* payload GetResourceBody returned; the render client's url is the
\* renderer's url, "/render/" and the format, and the request it builds is a
\* POST of that payload to that url.
C19_CallArguments ==
    \A r \in Reqs :
        /\ contentCalls[r] > 0 =>
               contentArgs[r] =
                   [userAccessToken |-> request[r].accessToken,
                    collectionID |-> request[r].collectionID,
                    lang |-> request[r].locale,
                    uri |-> request[r].uri]
        /\ renderCalls[r] > 0 =>
               /\ contentResp[r].done /\ contentResp[r].err.nil
               /\ renderArgs[r].format = request[r].format
               /\ renderArgs[r].body = contentResp[r].body
               /\ renderArgs[r].reqURL =
                      downloader.rendererClient.url \o <<"/render/">>
                          \o request[r].format
               /\ renderArgs[r].built =>
                      /\ renderArgs[r].posted.method = "POST"
                      /\ renderArgs[r].posted.url = renderArgs[r].reqURL
                      /\ renderArgs[r].posted.body = contentResp[r].body

C19_Witness ==
    \E r \in Reqs :
        /\ renderCalls[r] = 1
        /\ request[r].accessToken = "myAccessToken"
        /\ request[r].collectionID = "myCollection"
        /\ request[r].locale = "cy"
        /\ request[r].format = csv
        /\ contentArgs[r].userAccessToken = "myAccessToken"
        /\ contentArgs[r].collectionID = "myCollection"
        /\ renderArgs[r].body = "{}"
        /\ renderArgs[r].posted.url =
               <<"http://localhost:23300", "/render/">> \o csv

\* C20: in a process started without environment variables Get returns no
\* error and a Config whose BindAddr is ":23400", ShutdownTimeout 5s,
\* CORSAllowedOrigins "*", HealthCheckInterval 30s,
\* HealthCheckCriticalTimeout 90s, TableRendererHost
\* "http://localhost:23300", ContentServerHost "http://localhost:8082" and
\* APIRouterURL "http://localhost:23200/v1".
C20_Defaults ==
    (getCalls > 0 /\ \A k \in Keys : ~env[k].set) =>
        /\ cfgRet.err.nil
        /\ ~cfgRet.cfg.nil
        /\ cfgRet.cfg.c.BindAddr = <<":23400">>
        /\ cfgRet.cfg.c.ShutdownTimeout = 5 * Second
        /\ cfgRet.cfg.c.CORSAllowedOrigins = <<"*">>
        /\ cfgRet.cfg.c.HealthCheckInterval = 30 * Second
        /\ cfgRet.cfg.c.HealthCheckCriticalTimeout = 90 * Second
        /\ cfgRet.cfg.c.TableRendererHost = <<"http://localhost:23300">>
        /\ cfgRet.cfg.c.ContentServerHost = <<"http://localhost:8082">>
        /\ cfgRet.cfg.c.APIRouterURL = <<"http://localhost:23200/v1">>

C20_Witness ==
    /\ getCalls = 1
    /\ \A k \in Keys : ~env[k].set
    /\ ~cfg.nil
    /\ cfgRet.cfg = cfg
    /\ cfgRet.cfg.c.ShutdownTimeout = 5 * Second

\* the content client failed for request r with an upstream 500
Upstream500(r) ==
    /\ contentResp[r].done
    /\ contentResp[r].err = ErrInvalidZebedeeResponse(StatusInternalServerError)

C23_UnstructuredContentFailure ==
    \A r \in Reqs :
        (contentResp[r].done /\ contentResp[r].err.kind = "error") =>
            /\ Returned(r)
            /\ result[r].status = StatusInternalServerError
            /\ result[r].err = contentResp[r].err
            /\ renderCalls[r] = 0
            /\ ~renderResp[r].done

C23_Witness ==
    \E r \in Reqs :
        /\ pc[r] = "returned"
        /\ contentResp[r].err = NewError("The content server is down")
        /\ result[r].status = StatusInternalServerError
        /\ renderCalls[r] = 0

C22_Original ==
    \A r \in Reqs :
        /\ pc[r] # "panicked"
        /\ (Finished(r) /\ ~result[r].err.nil /\ result[r].body.nil) =>
               /\ pc[r] = "done"
               /\ w[r].wroteHeader
               /\ stream[r].closes = 0

\* C25: a request without access token or collection id, or whose
\* extraction of them reports an error, is not rejected for it: the error is
\* logged, the content client is called with the empty value, and Download
\* returns without a call only when format or uri is empty.
C25_OptionalHeaderValues ==
    \A r \in Reqs :
        pc[r] # "idle" =>
            /\ request[r].tokenErr <=>
                   "unexpected error when getting access token" \in logs[r]
            /\ request[r].collectionErr <=>
                   "unexpected error when getting collection id" \in logs[r]
            /\ (request[r].format # <<>> /\ request[r].uri # <<>>) =>
                   /\ contentCalls[r] = 1
                   /\ contentArgs[r].userAccessToken = request[r].accessToken
                   /\ contentArgs[r].collectionID = request[r].collectionID
                   /\ request[r].tokenErr => contentArgs[r].userAccessToken = ""
                   /\ request[r].collectionErr => contentArgs[r].collectionID = ""
            /\ (Returned(r) /\ contentCalls[r] = 0) =>
                   (request[r].format = <<>> \/ request[r].uri = <<>>)

C25_Witness ==
    \E r \in Reqs :
        /\ pc[r] = "returned"
        /\ request[r].tokenErr /\ request[r].collectionErr
        /\ contentArgs[r].userAccessToken = "" /\ contentArgs[r].collectionID = ""
        /\ contentCalls[r] = 1 /\ renderCalls[r] = 1
        /\ result[r].err.nil
        /\ result[r].status = StatusOK

\* the steps of the shutdown goroutine in the order of the code
ShutdownOrder == <<"healthcheck.Stop", "api.Close", "api.Close returned", "cancel">>

\* the process has exited
Exited == mpc \in {"exit0", "exit1"}

\* C26: the shutdown sequence runs once, started by the first API error or
\* signal that main's select takes; the health checker is stopped before the
\* HTTP server is asked to shut down, and the context is cancelled only when
\* both steps have returned.
C26_ShutdownOrder ==
    /\ shutdownRuns = (IF mpc = "select" THEN 0 ELSE 1)
    /\ Len(steps) <= Len(ShutdownOrder)
    /\ steps = SubSeq(ShutdownOrder, 1, Len(steps))
    /\ httpServer = "shutdown" => healthcheck = "stopped"
    /\ gracefulCtx.err = "Canceled" =>
           /\ healthcheck = "stopped"
           /\ closeErr # "none"
           /\ steps = ShutdownOrder

C26_Witness ==
    /\ mpc = "exit0"
    /\ shutdownRuns = 1
    /\ steps = ShutdownOrder
    /\ gracefulCtx.err = "Canceled"
    /\ httpServer = "shutdown"

\* C27: once begun the shutdown ends with the exit of the process; a timeout
\* that elapses before the steps are done, and an error of api.Close, both
\* lead to the exit with failure; a graceful shutdown is reported only when
\* the health checker was stopped and api.Close returned nil before the
\* timeout.
C27_ShutdownEnds ==
    /\ [](mpc = "exit0" =>
             /\ healthcheck = "stopped"
             /\ closeErr = "nil"
             /\ gracefulCtx.err = "Canceled")
    /\ (mpc = "waitDone") ~> Exited
    /\ (gracefulCtx.err = "DeadlineExceeded") ~> (mpc = "exit1")
    /\ (closeErr \notin {"none", "nil"}) ~> (mpc = "exit1")

C27_Witness ==
    /\ mpc = "exit1"
    /\ gracefulCtx.err = "DeadlineExceeded"
    /\ gpc = "closing"
    /\ healthcheck = "stopped"

\* C28: the server goroutine sends at most one error on the channel: the
\* error of a ListenAndServe that failed, and nothing when ListenAndServe
\* returned because the server was shut down; when it is about to send, the
\* channel of capacity 1 has room.
C28_AtMostOneError ==
    /\ sends <= 1
    /\ sends = 1 => listenErr = "listen failed"
    /\ spc = "sending" =>
           /\ listenErr = "listen failed"
           /\ sends = 0
           /\ Len(apiErrors) < ApiErrorsCap
    /\ listenErr = "ErrServerClosed" => (sends = 0 /\ spc = "done")
    /\ (listenErr = "listen failed" /\ spc = "done") => sends = 1
    /\ \A i \in 1..Len(apiErrors) : apiErrors[i] = "listen failed"

C28_Witness ==
    /\ sends = 1
    /\ spc = "done"
    /\ apiErrors = <<>>
    /\ mpc = "exit0"
    /\ httpServer = "failed"

\* C29 as stated: every call of Get after the first returns the same Config
\* object and the same error outcome as the call before it, so a failed first
\* call is never followed by a call that reports success.
C29_Original ==
    [][(getCalls >= 1 /\ getCalls' = getCalls + 1) =>
           /\ cfgRet'.cfg = cfgRet.cfg
           /\ cfgRet'.err.nil <=> cfgRet.err.nil]_vars

\* C30 as stated: when http.NewRequest fails, PostBody returns the error with
\* a nil response without touching the request, and Download returns 500.
C30_Original ==
    \A r \in Reqs :
        (renderCalls[r] > 0 /\ ~renderArgs[r].built) =>
            /\ pc[r] # "crashed"
            /\ renderArgs[r].posted = NoPost
            /\ Returned(r) =>
                   /\ result[r].status = StatusInternalServerError
                   /\ ~result[r].err.nil
                   /\ renderResp[r].resp.nil

====
